---- MODULE Spec2Model ----
(***************************************************************************)
(* A model of nanoframe.h: the grouping Index (constructor, merge,         *)
(* indexes), the Symbol interning table, and the vector operations         *)
(* transform and filter.                                                   *)
(*                                                                         *)
(* Columns are 0-based, as in the source: a Column of size n is a function *)
(* with domain 0..n-1.  This matters, because the constructor of Index     *)
(* uses a row id as a position.                                            *)
(***************************************************************************)
EXTENDS Integers, Sequences, FiniteSets, TLC

\* ---------------------------------------------------------------- bounds
MaxN == 4          \* largest row count of an Index
MaxKey == 2        \* keys are drawn from 0..MaxKey

Keys == 0..MaxKey

\* ---------------------------------------------------------------- state
VARIABLES
    n,            \* Index: the row count handed to the constructor
    vals,         \* Index: the key function, vals[row]
    ix,           \* Index::ix
    group_start,  \* Index::group_start
    ixReads,      \* positions at which the group-boundary pass read ix
    built,        \* Index::Index has run
    ranges,       \* the range_t values merge handed to its callback, in order
    merged,       \* Index::merge has run
    ret,          \* the Column returned by Index::indexes
    indexed       \* Index::indexes has run

ixVars == <<n, vals, ix, group_start, ixReads, built, ranges, merged, ret, indexed>>

VARIABLES
    table,        \* intern_table<TAG, Int>(): string -> code
    firstSeen,    \* history: the strings interned during the run, in the order of first interning
    from,         \* which Symbol constructor ran last: "none", "null_symbol", "string"
    str,          \* the argument of the last Symbol(const std::string&)
    val           \* Symbol::val of the last constructed Symbol

symVars == <<table, firstSeen, from, str, val>>

VARIABLES
    t,            \* the caller's column: dst of transform, source of filter
    op,           \* the last vector operation: "none", "transform", "filter"
    sarg,         \* the s argument of the last transform
    farg,         \* the f argument of the last transform
    ixarg,        \* the ix argument of the last filter
    what,         \* what() of the std::runtime_error thrown by the last operation, "" if none
    outcome,      \* how the last operation ended: "none", "returned", "threw", "crashed"
    fret,         \* the Column returned by the last filter
    calls         \* number of vector operations so far

vecVars == <<t, op, sarg, farg, ixarg, what, outcome, fret, calls>>

vars == <<ixVars, symVars, vecVars>>

\* ---------------------------------------------------------------- Column helpers
EmptyColumn == [i \in {} |-> 0]

\* Column<Int>(n): n value-initialised elements
ZeroColumn(len) == [i \in 0..(len - 1) |-> 0]

Size(c) == Cardinality(DOMAIN c)

\* ---------------------------------------------------------------- Index::Index
\* lines 112-114: ix[i] = i
Iota(len) == [i \in 0..(len - 1) |-> i]

\* the comparator handed to std::sort
Less(v, a, b) == v[a] < v[b]

\* std::sort orders by the comparator and leaves the relative order of
\* equivalent elements unspecified: every arrangement of the input that is
\* ordered by the comparator is a possible result.
StdSort(c, v) ==
    { p \in [DOMAIN c -> {c[i] : i \in DOMAIN c}] :
        /\ \A x \in DOMAIN c : Cardinality({i \in DOMAIN p : p[i] = c[x]}) = 1
        /\ \A i, j \in DOMAIN p : i < j => ~Less(v, p[j], p[i]) }

\* GroupLoop with line 132 placed before the test of line 129: the position
\* records the representative of the cursor as it was before it moved.
RECURSIVE GroupLoopStaleCursor(_, _, _, _, _)
GroupLoopStaleCursor(sorted, v, i, prev_i, acc) ==
    IF i >= Size(sorted) THEN acc
    ELSE LET p == IF v[sorted[prev_i]] # v[sorted[i]] THEN i ELSE prev_i
         IN GroupLoopStaleCursor(sorted, v, i + 1, p,
                      [gs    |-> [acc.gs EXCEPT ![i] = sorted[prev_i]],
                       reads |-> acc.reads \cup {prev_i, i}])

\* lines 128-133: the loop body at position i with cursor prev_i; acc carries
\* group_start and the positions of ix that were read.
RECURSIVE GroupLoop(_, _, _, _, _)
GroupLoop(sorted, v, i, prev_i, acc) ==
    IF i >= Size(sorted) THEN acc
    ELSE LET p == IF v[sorted[prev_i]] # v[sorted[i]] THEN i ELSE prev_i
         IN GroupLoop(sorted, v, i + 1, p,
                      [gs    |-> [acc.gs EXCEPT ![i] = sorted[p]],
                       reads |-> acc.reads \cup {prev_i, i, p}])

\* lines 121-133: the group-boundary pass over the sorted permutation
GroupPass(sorted, v) ==
    IF Size(sorted) = 0
    THEN [gs |-> ZeroColumn(0), reads |-> {}]
    ELSE LET gs0 == [ZeroColumn(Size(sorted)) EXCEPT ![0] = sorted[0]]
             prev_i == gs0[0]
         IN GroupLoop(sorted, v, 1, prev_i, [gs |-> gs0, reads |-> {0}])

\* ---------------------------------------------------------------- Index::merge
\* lines 139-145: the scan; out is the sequence of ranges handed to f so far
RECURSIVE MergeLoop(_, _, _, _)
MergeLoop(gs, i, prev_i, out) ==
    IF i >= Size(gs) THEN [prev_i |-> prev_i, out |-> out]
    ELSE IF gs[i] # gs[prev_i]
         THEN MergeLoop(gs, i + 1, i,
                        Append(out, [group_head |-> gs[prev_i], b |-> prev_i, e |-> i]))
         ELSE MergeLoop(gs, i + 1, prev_i, out)

\* MergeRanges without lines 147-149: the last group is never handed to f.
MergeRangesNoTrailing(perm, gs) == MergeLoop(gs, 0, 0, <<>>).out

\* lines 138-149: the scan followed by the trailing range
MergeRanges(perm, gs) ==
    LET r == MergeLoop(gs, 0, 0, <<>>)
    IN IF Size(gs) > 0
       THEN Append(r.out, [group_head |-> gs[r.prev_i], b |-> r.prev_i, e |-> Size(perm)])
       ELSE r.out

\* ---------------------------------------------------------------- Index::indexes
\* std::unique followed by erase: drop every element equal to its predecessor
RECURSIVE Unique(_, _, _)
Unique(c, i, out) ==
    IF i >= Size(c) THEN out
    ELSE IF i > 0 /\ c[i] = c[i - 1]
         THEN Unique(c, i + 1, out)
         ELSE Unique(c, i + 1, [k \in 0..Size(out) |-> IF k < Size(out) THEN out[k] ELSE c[i]])

Indexes(gs) == Unique(gs, 0, EmptyColumn)

\* ---------------------------------------------------------------- Index actions
IndexStart ==
    /\ n \in 0..MaxN
    /\ vals \in [0..(n - 1) -> Keys]
    /\ ix = EmptyColumn
    /\ group_start = EmptyColumn
    /\ ixReads = {}
    /\ built = FALSE
    /\ ranges = <<>>
    /\ merged = FALSE
    /\ ret = EmptyColumn
    /\ indexed = FALSE

\* Index(n, vals)
Construct ==
    /\ ~built
    /\ \E sorted \in StdSort(Iota(n), vals) :
          LET g == GroupPass(sorted, vals)
          IN /\ ix' = sorted
             /\ group_start' = g.gs
             /\ ixReads' = g.reads
    /\ built' = TRUE
    /\ UNCHANGED <<n, vals, ranges, merged, ret, indexed>>
    /\ UNCHANGED <<symVars, vecVars>>

\* index.merge(f), f recording the ranges it is called with
Merge ==
    /\ built
    /\ ~merged
    /\ ranges' = MergeRanges(ix, group_start)
    /\ merged' = TRUE
    /\ UNCHANGED <<n, vals, ix, group_start, ixReads, built, ret, indexed>>
    /\ UNCHANGED <<symVars, vecVars>>

\* index.indexes()
CallIndexes ==
    /\ built
    /\ ~indexed
    /\ ret' = Indexes(group_start)
    /\ indexed' = TRUE
    /\ UNCHANGED <<n, vals, ix, group_start, ixReads, built, ranges, merged>>
    /\ UNCHANGED <<symVars, vecVars>>

\* The arrangement std::sort yields when it keeps equivalent elements in their
\* input order, as libstdc++'s insertion sort does for ranges of at most 16
\* elements: one of the outcomes of StdSort.
InsertionSort(c, v) ==
    { p \in StdSort(c, v) :
        \A i, j \in DOMAIN p : (i < j /\ ~Less(v, p[i], p[j])) =>
            \E x, y \in DOMAIN c : x < y /\ c[x] = p[i] /\ c[y] = p[j] }

\* Index(n, vals) where std::sort keeps equivalent elements in input order
ConstructInOrder ==
    /\ ~built
    /\ \E sorted \in InsertionSort(Iota(n), vals) :
          LET g == GroupPass(sorted, vals)
          IN /\ ix' = sorted
             /\ group_start' = g.gs
             /\ ixReads' = g.reads
    /\ built' = TRUE
    /\ UNCHANGED <<n, vals, ranges, merged, ret, indexed>>
    /\ UNCHANGED <<symVars, vecVars>>

IndexIdle ==
    /\ n = 0
    /\ vals = EmptyColumn
    /\ ix = EmptyColumn
    /\ group_start = EmptyColumn
    /\ ixReads = {}
    /\ built = FALSE
    /\ ranges = <<>>
    /\ merged = FALSE
    /\ ret = EmptyColumn
    /\ indexed = FALSE

\* ---------------------------------------------------------------- Symbol
\* Strings are modelled as positive naturals; only their identity matters to
\* the table.
\*
\* The table is a record [pre, map].  map holds the entries made during the
\* run.  pre stands for the entries the table held when the run started: the
\* strings 1..pre, interned in that order before the run, so that string s of
\* them has code s (pre is below the range of Int, so no code of them wrapped).
\* A run from the empty table has pre = 0.

CodeBits == 16                 \* Int = std::uint16_t
CodeModulus == 2 ^ CodeBits

MaxFresh == 3      \* number of strings beyond the first two and the preloaded ones

\* the keys of the table
Interned(tb) == (1..tb.pre) \cup DOMAIN tb.map

\* i->second for the entry find(s) yields
At(tb, s) == IF s \in 1..tb.pre THEN s ELSE tb.map[s]

\* table.size()
TableSize(tb) == tb.pre + Cardinality(DOMAIN tb.map)

\* conversion of a size_t to Int
ToInt(x) == x % CodeModulus

\* line 49, right-hand side: table.size() + 1, evaluated before table[s]
\* inserts (the right operand of = is sequenced first), then stored as Int
InternCode(tb) == ToInt(TableSize(tb) + 1)

\* lines 45-51: the table after Symbol(s)
Intern(tb, s) ==
    IF s \in Interned(tb) THEN tb
    ELSE [tb EXCEPT !.map = (s :> InternCode(tb)) @@ tb.map]

\* Symbol::null and Symbol::ok
Null(v) == v = 0
Ok(v) == v # 0

\* The table starts empty, or two entries short of the range of Int.
PreloadSizes == {0, CodeModulus - 2}

SymInputs == (1..2) \cup ((CodeModulus - 1)..(CodeModulus - 2 + MaxFresh))

SymbolStart ==
    /\ \E pre \in PreloadSizes : table = [pre |-> pre, map |-> <<>>]
    /\ firstSeen = <<>>
    /\ from = "none"
    /\ str = 0
    /\ val = 0

SymbolIdle ==
    /\ table = [pre |-> 0, map |-> <<>>]
    /\ firstSeen = <<>>
    /\ from = "none"
    /\ str = 0
    /\ val = 0

\* Symbol(null_symbol)
SymbolFromNull ==
    /\ val' = 0
    /\ from' = "null_symbol"
    /\ UNCHANGED <<table, firstSeen, str>>
    /\ UNCHANGED <<ixVars, vecVars>>

\* Symbol(const std::string& s)
SymbolFromString(s) ==
    /\ table' = Intern(table, s)
    /\ val' = At(table', s)
    /\ firstSeen' = IF s \in Interned(table) THEN firstSeen ELSE Append(firstSeen, s)
    /\ from' = "string"
    /\ str' = s
    /\ UNCHANGED <<ixVars, vecVars>>

\* ---------------------------------------------------------------- transform, filter
MaxLen == 2        \* longest column handed to transform and filter
MaxVal == 1        \* column elements start in 0..MaxVal
MaxCalls == 2      \* number of vector operations in a run

Values == 0..MaxVal

ColumnsOf(S) == UNION {[0..(k - 1) -> S] : k \in 0..MaxLen}

\* the callables handed to transform
Fns == {"add", "keep"}

Apply(f, a, b) == IF f = "add" THEN a + b ELSE a

\* lines 177-179
RECURSIVE TransformLoop(_, _, _, _)
TransformLoop(tc, sc, f, i) ==
    IF i >= Size(tc) THEN tc
    ELSE TransformLoop([tc EXCEPT ![i] = Apply(f, tc[i], sc[i])], sc, f, i + 1)

\* line 174: the message of the exception
MismatchMessage(tc, sc) ==
    "Column size mismatch in nanoframe::transform: "
        \o ToString(Size(tc)) \o " != " \o ToString(Size(sc))

\* Transform with the size check of lines 173-175 placed after the loop, the
\* loop running over the positions both columns have.
TransformCheckLate(tc, sc, f) ==
    LET written == [i \in DOMAIN tc |->
                      IF i \in DOMAIN sc THEN Apply(f, tc[i], sc[i]) ELSE tc[i]]
    IN IF Size(tc) # Size(sc)
       THEN [t |-> written, outcome |-> "threw", what |-> MismatchMessage(tc, sc)]
       ELSE [t |-> written, outcome |-> "returned", what |-> ""]

\* lines 172-182: transform(Container auto& t, const Container auto& s, auto f)
Transform(tc, sc, f) ==
    IF Size(tc) # Size(sc)
    THEN [t |-> tc, outcome |-> "threw", what |-> MismatchMessage(tc, sc)]
    ELSE [t |-> TransformLoop(tc, sc, f, 0), outcome |-> "returned", what |-> ""]

\* lines 218-227: filter.  t[i] is an unchecked operator[]: with i >= t.size()
\* the read is undefined, and the call either stops the process or goes on with
\* an arbitrary value in that place.
Filter(tc, idx) ==
    IF \A k \in DOMAIN idx : idx[k] \in DOMAIN tc
    THEN {[outcome |-> "returned", ret |-> [k \in DOMAIN idx |-> tc[idx[k]]]]}
    ELSE {[outcome |-> "crashed", ret |-> EmptyColumn]}
         \cup {[outcome |-> "returned", ret |-> r] :
                 r \in {g \in [DOMAIN idx -> Values \cup {tc[i] : i \in DOMAIN tc}] :
                          \A k \in DOMAIN idx :
                              idx[k] \in DOMAIN tc => g[k] = tc[idx[k]]}}

VecStart ==
    /\ t \in ColumnsOf(Values)
    /\ op = "none"
    /\ sarg = EmptyColumn
    /\ farg = "keep"
    /\ ixarg = EmptyColumn
    /\ what = ""
    /\ outcome = "none"
    /\ fret = EmptyColumn
    /\ calls = 0

VecIdle ==
    /\ t = EmptyColumn
    /\ op = "none"
    /\ sarg = EmptyColumn
    /\ farg = "keep"
    /\ ixarg = EmptyColumn
    /\ what = ""
    /\ outcome = "none"
    /\ fret = EmptyColumn
    /\ calls = 0

\* try { transform(t, s, f); } catch (std::runtime_error& e) { what = e.what(); }
CallTransform(sc, f) ==
    /\ outcome # "crashed"
    /\ calls < MaxCalls
    /\ LET r == Transform(t, sc, f)
       IN /\ t' = r.t
          /\ outcome' = r.outcome
          /\ what' = r.what
    /\ op' = "transform"
    /\ sarg' = sc
    /\ farg' = f
    /\ calls' = calls + 1
    /\ UNCHANGED <<ixarg, fret>>
    /\ UNCHANGED <<ixVars, symVars>>

\* fret = filter(t, idx)
CallFilter(idx) ==
    /\ outcome # "crashed"
    /\ calls < MaxCalls
    /\ \E r \in Filter(t, idx) :
          /\ outcome' = r.outcome
          /\ fret' = r.ret
    /\ what' = ""
    /\ op' = "filter"
    /\ ixarg' = idx
    /\ calls' = calls + 1
    /\ UNCHANGED <<t, sarg, farg>>
    /\ UNCHANGED <<ixVars, symVars>>

\* ---------------------------------------------------------------- specifications
InitIndex == IndexStart /\ SymbolIdle /\ VecIdle

NextIndex == Construct \/ Merge \/ CallIndexes

SpecIndex == InitIndex /\ [][NextIndex]_vars

NextIndexInOrder == ConstructInOrder \/ Merge \/ CallIndexes

SpecIndexInOrder == InitIndex /\ [][NextIndexInOrder]_vars

InitSymbol == IndexIdle /\ SymbolStart /\ VecIdle

NextSymbol ==
    \/ SymbolFromNull
    \/ \E s \in SymInputs : SymbolFromString(s)

SpecSymbol == InitSymbol /\ [][NextSymbol]_vars

InitVec == IndexIdle /\ SymbolIdle /\ VecStart

NextTransform == \E sc \in ColumnsOf(Values), f \in Fns : CallTransform(sc, f)

SpecTransform == InitVec /\ [][NextTransform]_vars

NextFilter == \E idx \in ColumnsOf(0..MaxLen) : CallFilter(idx)

SpecFilter == InitVec /\ [][NextFilter]_vars

\* ================================================================ properties of Index
Rows == 0..(n - 1)

\* the sorted positions covered by the k-th emitted range
Slice(k) == ranges[k].b..(ranges[k].e - 1)

\* the emitted ranges whose slice of ix holds the row
RangesOf(row) == {k \in 1..Len(ranges) : \E p \in Slice(k) : ix[p] = row}

\* C1: once the index is built, two sorted positions have the same group_start
\* exactly when their rows have equal keys; and two rows fall in a common range
\* emitted by merge exactly when their keys are equal.
C1_SameGroupIffSameKey ==
    /\ built => \A i, j \in DOMAIN ix :
                   (group_start[i] = group_start[j]) <=> (vals[ix[i]] = vals[ix[j]])
    /\ merged => \A a, b \in Rows :
                   (RangesOf(a) \cap RangesOf(b) # {}) <=> (vals[a] = vals[b])

\* C2: the ranges merge hands to its callback partition the permutation: every
\* row id lies at exactly one position of exactly one emitted slice, no emitted
\* range is empty, and an index over zero rows emits nothing.
C2_RangesPartition ==
    merged =>
       /\ \A row \in Rows :
             Cardinality({<<k, p>> \in (1..Len(ranges)) \X (DOMAIN ix) :
                             p \in Slice(k) /\ ix[p] = row}) = 1
       /\ \A k \in 1..Len(ranges) :
             /\ ranges[k].b < ranges[k].e
             /\ Slice(k) \subseteq DOMAIN ix
       /\ (n = 0 => ranges = <<>>)

C2_Witness ==
    /\ merged
    /\ Len(ranges) >= 2
    /\ \E k \in 1..Len(ranges) : ranges[k].e - ranges[k].b >= 2

\* C3: indexes() returns exactly one row id per distinct key present among the
\* rows, and the keys of the returned row ids are strictly ascending.
C3_OneRepresentativePerKey ==
    indexed =>
       /\ \A r \in DOMAIN ret : ret[r] \in Rows
       /\ \A key \in {vals[row] : row \in Rows} :
             Cardinality({r \in DOMAIN ret : vals[ret[r]] = key}) = 1
       /\ \A r, s \in DOMAIN ret : r < s => vals[ret[r]] < vals[ret[s]]

\* C4: ix is a permutation of 0..n-1, ascending by key, and rows with equal
\* keys keep their original relative order.
C4_StableSortedPermutation ==
    built =>
       /\ DOMAIN ix = Rows
       /\ \A row \in Rows : Cardinality({i \in DOMAIN ix : ix[i] = row}) = 1
       /\ \A i, j \in DOMAIN ix : i < j => vals[ix[i]] <= vals[ix[j]]
       /\ \A i, j \in DOMAIN ix : (i < j /\ vals[ix[i]] = vals[ix[j]]) => ix[i] < ix[j]

\* C9: the group_head of every emitted range is the row id at the first sorted
\* position of the range, and every position of the range records that row id
\* in group_start.
C9_HeadIsFirstOfRange ==
    merged => \A k \in 1..Len(ranges) :
                 /\ ranges[k].group_head = ix[ranges[k].b]
                 /\ \A p \in Slice(k) : group_start[p] = ix[ranges[k].b]

\* C10: the group-boundary pass reads ix only at positions below n, the
\* representative recorded at a position has the key of the row at that
\* position, and no emitted range holds two rows with different keys.
C10_RepresentativeHasRowKey ==
    /\ built => /\ ixReads \subseteq 0..(n - 1)
                /\ DOMAIN group_start = DOMAIN ix
                /\ \A i \in DOMAIN ix : /\ group_start[i] \in Rows
                                        /\ vals[group_start[i]] = vals[ix[i]]
    /\ merged => \A k \in 1..Len(ranges) :
                    \A p, q \in Slice(k) : vals[ix[p]] = vals[ix[q]]

\* the cursor starts at a position other than 0, and a range of two rows is emitted
C10_Witness ==
    /\ merged
    /\ n >= 3
    /\ ix[0] >= 2
    /\ \E k \in 1..Len(ranges) : ranges[k].e - ranges[k].b >= 2

\* ================================================================ properties of Symbol
\* the number of distinct strings interned so far
Distinct == table.pre + Len(firstSeen)

\* the k-th distinct string in the order of first interning
KthFirstSeen(k) == IF k <= table.pre THEN k ELSE firstSeen[k - table.pre]

\* C5: the k-th string first seen has code k, and constructing a Symbol from a
\* string already in the table yields the code the table holds for it and
\* leaves the table, its size and all its entries, as it was.
C5_CodesFollowFirstSeenOrder ==
    [][ /\ \A k \in 1..Distinct' : At(table', KthFirstSeen(k)') = k
        /\ (from' = "string" /\ str' \in Interned(table)) =>
              (table' = table /\ val' = At(table, str')) ]_vars

\* C6: a Symbol constructed from a string never has val 0 and is never null,
\* no string of the table is mapped to 0, and Symbol(null_symbol) has val 0.
C6_ZeroOnlyFromNullSymbol ==
    /\ from = "string" => (val # 0 /\ ~Null(val) /\ Ok(val))
    /\ from = "null_symbol" => (val = 0 /\ Null(val))
    /\ \A s \in Interned(table) : At(table, s) # 0

\* ================================================================ properties of transform and filter
\* C7: a call of transform with columns of different sizes throws the size
\* mismatch error whose message names both sizes and leaves every element of t
\* as it was; with equal sizes it returns with t[i] = f(old t[i], s[i]).
C7_TransformChecksBeforeWriting ==
    [][ (op' = "transform" /\ calls' = calls + 1) =>
          IF Size(t) # Size(sarg')
          THEN /\ outcome' = "threw"
               /\ what' = "Column size mismatch in nanoframe::transform: "
                             \o ToString(Size(t)) \o " != " \o ToString(Size(sarg'))
               /\ t' = t
          ELSE /\ outcome' = "returned"
               /\ DOMAIN t' = DOMAIN t
               /\ \A i \in DOMAIN t : t'[i] = Apply(farg', t[i], sarg'[i]) ]_vars

\* transform threw on a non-empty t whose elements f would have changed
C7_Witness ==
    /\ op = "transform"
    /\ outcome = "threw"
    /\ farg = "add"
    /\ Size(t) >= 1
    /\ Size(sarg) > Size(t)
    /\ \E i \in DOMAIN t : sarg[i] # 0

\* C8: filter ends with an out-of-range error and returns nothing when some
\* index is not below the size of the column; otherwise it returns a column as
\* long as the indices with ret[k] = t[ix[k]].
C8_FilterChecksRange ==
    op = "filter" =>
       IF \E k \in DOMAIN ixarg : ixarg[k] >= Size(t)
       THEN outcome = "threw" /\ what # ""
       ELSE /\ outcome = "returned"
            /\ DOMAIN fret = DOMAIN ixarg
            /\ \A k \in DOMAIN ixarg : fret[k] = t[ixarg[k]]

====
